---- MODULE Spec2Model ----
(***************************************************************************)
(* A model of nodes.py: the MultiGPUPreprocessorWrapper (the recursive     *)
(* tensor relocation helper and execute's save / override / restore of the *)
(* global model_management.get_torch_device hook) and the module-level     *)
(* lookup of five preprocessor classes and their registration.             *)
(***************************************************************************)
EXTENDS Integers, Sequences, FiniteSets, TLC

VARIABLES
    \* ---- process-wide state used by execute
    hook,           \* model_management.get_torch_device (a function object)
    hostHook,       \* ghost: the function the host installed last
    instance,       \* wrapper -> self._preprocessor_instance (0 is None)
    stack,          \* thread -> the execute frames of that thread, outermost first
    last,           \* ghost: thread -> what the last finished execute call did
    nextCall,       \* ghost: the number the next execute call gets
    overlapped,     \* ghost: an execute call began while another thread was inside one
    \* ---- _ensure_tensors_on_device applied to one input
    relocObj, relocDevice, relocOut, relocPhase,
    \* ---- module load
    registry, importable, auxBound, wrapperOf,
    NODE_CLASS_MAPPINGS, NODE_DISPLAY_NAME_MAPPINGS, loadPc

execVars == <<hook, hostHook, instance, stack, last, nextCall, overlapped>>
relocVars == <<relocObj, relocDevice, relocOut, relocPhase>>
loadVars == <<registry, importable, auxBound, wrapperOf,
              NODE_CLASS_MAPPINGS, NODE_DISPLAY_NAME_MAPPINGS, loadPc>>
vars == <<execVars, relocVars, loadVars>>

\* ------------------------------------------------------------------ bounds
MaxDepth == 2       \* nesting depth of the structures given to the helper
MaxLen == 2         \* number of elements of one container
MaxCalls == 2       \* execute calls in one behaviour
MaxNest == 2        \* execute frames on one thread's stack

\* ------------------------------------------------------------------ values
Devices == {"cpu", "cuda:0", "cuda:1"}

Tensor(d) == [kind |-> "tensor", device |-> d]
Other(x) == [kind |-> "other", val |-> x]
DictOf(t, items) == [kind |-> "dict", type |-> t, items |-> items]
SeqOf(t, items) == [kind |-> "seq", type |-> t, items |-> items]
Item(k, v) == [key |-> k, value |-> v]
NoValue == [kind |-> "none"]
Raised(e) == [kind |-> "raise", error |-> e]

\* dict and a subtype of it; list, tuple, a list subtype whose constructor takes
\* an iterable, and a tuple subtype (a namedtuple) whose constructor takes its
\* fields one by one
DictTypes == {"dict", "OrderedDict"}
SeqTypes == {"list", "tuple", "ListSubclass", "namedtuple"}
IterableCtor == {"list", "tuple", "ListSubclass"}
Keys == {"a", "b"}
Leaves == {Tensor("cpu"), Tensor("cuda:1"), Other("x")}

\* the generator expression handed to type(obj)(...), when nothing iterates it
GeneratorObject == Other("generator")

IsRaised(v) == v.kind = "raise"

\* obj.to(device)
TensorTo(obj, device) == [obj EXCEPT !.device = device]

FirstRaised(vs) ==
    vs[CHOOSE i \in 1..Len(vs) :
          IsRaised(vs[i]) /\ \A j \in 1..(i - 1) : ~IsRaised(vs[j])]

\* {k: ... for k, v in obj.items()}: always a plain dict
DictComprehension(obj, vs) ==
    DictOf("dict", [i \in 1..Len(vs) |-> Item(obj.items[i].key, vs[i])])

\* type(obj)(<generator>): list, tuple and subclasses that keep their constructor
\* iterate the generator; a namedtuple binds it to its first field without
\* iterating it, and raises TypeError unless it has exactly one field
TypeCall(obj, vs) ==
    IF obj.type \in IterableCtor
    THEN IF \E i \in 1..Len(vs) : IsRaised(vs[i])
         THEN FirstRaised(vs)
         ELSE SeqOf(obj.type, vs)
    ELSE IF Len(obj.items) = 1
         THEN SeqOf(obj.type, <<GeneratorObject>>)
         ELSE Raised("TypeError")

RECURSIVE ensure_tensors_on_device(_, _)
ensure_tensors_on_device(obj, device) ==
    IF obj.kind = "tensor" THEN TensorTo(obj, device)
    ELSE IF obj.kind = "dict" THEN
        LET vs == [i \in 1..Len(obj.items) |->
                      ensure_tensors_on_device(obj.items[i].value, device)]
        IN  IF \E i \in 1..Len(vs) : IsRaised(vs[i])
            THEN FirstRaised(vs)
            ELSE DictComprehension(obj, vs)
    ELSE IF obj.kind = "seq" THEN
        TypeCall(obj, [i \in 1..Len(obj.items) |->
                          ensure_tensors_on_device(obj.items[i], device)])
    ELSE obj

\* ---- helpers of the properties
RECURSIVE Depth(_)
Depth(v) ==
    IF v.kind = "dict"
    THEN 1 + (IF Len(v.items) = 0 THEN 0
              ELSE LET ds == {Depth(v.items[i].value) : i \in 1..Len(v.items)}
                   IN  CHOOSE d \in ds : \A e \in ds : e <= d)
    ELSE IF v.kind = "seq"
    THEN 1 + (IF Len(v.items) = 0 THEN 0
              ELSE LET ds == {Depth(v.items[i]) : i \in 1..Len(v.items)}
                   IN  CHOOSE d \in ds : \A e \in ds : e <= d)
    ELSE 0

RECURSIVE SumTo(_, _)
SumTo(f, n) == IF n = 0 THEN 0 ELSE f[n] + SumTo(f, n - 1)

RECURSIVE TensorCount(_)
TensorCount(v) ==
    IF v.kind = "tensor" THEN 1
    ELSE IF v.kind = "dict"
    THEN SumTo([i \in 1..Len(v.items) |-> TensorCount(v.items[i].value)], Len(v.items))
    ELSE IF v.kind = "seq"
    THEN SumTo([i \in 1..Len(v.items) |-> TensorCount(v.items[i])], Len(v.items))
    ELSE 0

RECURSIVE AllTensorsOn(_, _)
AllTensorsOn(v, device) ==
    IF v.kind = "tensor" THEN v.device = device
    ELSE IF v.kind = "dict"
    THEN \A i \in 1..Len(v.items) : AllTensorsOn(v.items[i].value, device)
    ELSE IF v.kind = "seq"
    THEN \A i \in 1..Len(v.items) : AllTensorsOn(v.items[i], device)
    ELSE TRUE

\* out is obj with every tensor leaf on device: same container type, same keys,
\* same order, same count, every other leaf the same value
RECURSIVE Relocated(_, _, _)
Relocated(obj, out, device) ==
    IF obj.kind = "tensor" THEN out.kind = "tensor" /\ out.device = device
    ELSE IF obj.kind = "dict"
    THEN /\ out.kind = "dict"
         /\ out.type = obj.type
         /\ Len(out.items) = Len(obj.items)
         /\ \A i \in 1..Len(obj.items) :
               /\ out.items[i].key = obj.items[i].key
               /\ Relocated(obj.items[i].value, out.items[i].value, device)
    ELSE IF obj.kind = "seq"
    THEN /\ out.kind = "seq"
         /\ out.type = obj.type
         /\ Len(out.items) = Len(obj.items)
         /\ \A i \in 1..Len(obj.items) :
               Relocated(obj.items[i], out.items[i], device)
    ELSE out = obj

\* ---------------------------------------------------------------- execute
Threads == {"t1", "t2"}
MainThread == "t1"

\* wrapper objects: MultiGPUPreprocessorWrapper(preprocessor_class, target_device)
Wrappers == {"w1", "w2", "w3"}
target_device(w) ==
    IF w = "w1" THEN "cuda:0" ELSE IF w = "w2" THEN "cuda:1" ELSE "cuda:x"

\* function objects the hook can hold: the host's own functions (their result
\* varies from call to call) and the lambda of one execute call
Original(n) == [kind |-> "original", name |-> n, call |-> 0, device |-> "any"]
Lambda(id, d) == [kind |-> "lambda", name |-> "lambda", call |-> id, device |-> d]
NoHook == [kind |-> "none", name |-> "none", call |-> 0, device |-> "none"]
Originals == {Original("comfy"), Original("multigpu")}

\* the devices a call of the function h can return
CallHook(h) == IF h.kind = "lambda" THEN {h.device} ELSE Devices

Err(cls, site, id) == [cls |-> cls, site |-> site, call |-> id]
NoError == Err("none", "none", 0)

\* **kwargs is a plain dict; its values are what the host passes
KwargsSamples ==
    { DictOf("dict", <<Item("image", Tensor("cpu"))>>),
      DictOf("dict", <<Item("image", Tensor("cuda:1")),
                       Item("opts", SeqOf("list", <<Tensor("cpu"), Other("x")>>))>>),
      DictOf("dict", <<Item("pt", SeqOf("namedtuple", <<Tensor("cpu")>>))>>),
      DictOf("dict", <<Item("pt", SeqOf("namedtuple", <<Tensor("cpu"), Other("x")>>))>>) }

\* what a wrapped method returns
ResultSamples ==
    { SeqOf("tuple", <<Tensor("cpu")>>),
      SeqOf("namedtuple", <<Tensor("cuda:1"), Other("x")>>) }

NewFrame(id, w, kw) ==
    [id |-> id, self |-> w, pc |-> "save",
     kwargs0 |-> kw, kwargs |-> kw,
     original_get_device |-> NoHook, target_torch_device |-> "unset",
     args |-> NoValue, result |-> NoValue, exc |-> NoError,
     hookBefore |-> hook, staleInstance |-> instance[w],
     reused |-> FALSE, used |-> 0, invocations |-> 0, methodErr |-> NoError,
     seen |-> {}, resumed |-> FALSE]

NoCall ==
    [id |-> 0, self |-> "none", depth |-> 0, hookBefore |-> NoHook,
     hookAfter |-> NoHook, raised |-> NoError, result |-> NoValue,
     methodErr |-> NoError, invocations |-> 0, hadInner |-> FALSE,
     target |-> "unset"]

Top(t) == stack[t][Len(stack[t])]
Running(t) == stack[t] # <<>>
AtPc(t, pc) == Running(t) /\ Top(t).pc = pc
SetTop(t, f) == [stack EXCEPT ![t] = [@ EXCEPT ![Len(@)] = f]]

\* an error leaves the try body: "except Exception" takes it unless it is a
\* BaseException only (KeyboardInterrupt), and "finally" runs either way
Throw(f, e) ==
    [f EXCEPT !.exc = e,
              !.pc = IF e.cls = "Exception" THEN "except" ELSE "finally"]

ExecInit(h) ==
    /\ hook = h /\ hostHook = h
    /\ instance = [w \in Wrappers |-> 0]
    /\ stack = [t \in Threads |-> <<>>]
    /\ last = [t \in Threads |-> NoCall]
    /\ nextCall = 1
    /\ overlapped = FALSE

IdleExec == ExecInit(Original("comfy"))

\* the host calls execute(**kwargs) on a wrapper
Call(t, w, kw) ==
    /\ ~Running(t)
    /\ nextCall <= MaxCalls
    /\ stack' = [stack EXCEPT ![t] = <<NewFrame(nextCall, w, kw)>>]
    /\ nextCall' = nextCall + 1
    /\ UNCHANGED <<hook, hostHook, instance, last, overlapped, relocVars, loadVars>>

\* one thread of several calls execute once
ThreadCall(t, w, kw) ==
    /\ ~Running(t)
    /\ last[t] = NoCall
    /\ stack' = [stack EXCEPT ![t] = <<NewFrame(nextCall, w, kw)>>]
    /\ nextCall' = nextCall + 1
    /\ overlapped' = (overlapped \/ \E u \in Threads \ {t} : Running(u))
    /\ UNCHANGED <<hook, hostHook, instance, last, relocVars, loadVars>>

\* the wrapped method of the running call calls execute on a wrapper itself
NestedCall(t, w, kw) ==
    /\ AtPc(t, "in_method")
    /\ Len(stack[t]) < MaxNest
    /\ nextCall <= MaxCalls
    /\ stack' = [stack EXCEPT ![t] = Append(@, NewFrame(nextCall, w, kw))]
    /\ nextCall' = nextCall + 1
    /\ UNCHANGED <<hook, hostHook, instance, last, overlapped, relocVars, loadVars>>

\* between calls the host (ComfyUI-MultiGPU) installs another function
HostPatch ==
    /\ \A t \in Threads : ~Running(t)
    /\ \E h \in Originals \ {hook} : hook' = h /\ hostHook' = h
    /\ UNCHANGED <<instance, stack, last, nextCall, overlapped, relocVars, loadVars>>

\* original_get_device = model_management.get_torch_device
Save(t) ==
    /\ AtPc(t, "save")
    /\ stack' = SetTop(t, [Top(t) EXCEPT !.original_get_device = hook, !.pc = "cache"])
    /\ UNCHANGED <<hook, hostHook, instance, last, nextCall, overlapped, relocVars, loadVars>>

\* if hasattr(...): model_management.soft_empty_cache()
EmptyCache(t) ==
    /\ AtPc(t, "cache")
    /\ \/ stack' = SetTop(t, [Top(t) EXCEPT !.pc = "reset"])
       \/ stack' = SetTop(t, Throw(Top(t), Err("Exception", "soft_empty_cache", Top(t).id)))
    /\ UNCHANGED <<hook, hostHook, instance, last, nextCall, overlapped, relocVars, loadVars>>

\* mutant of ClearedInstance: the cached instance is kept
KeptInstance(cur) == cur

\* self._preprocessor_instance = None
ClearedInstance(cur) == 0

ResetInstance(t) ==
    /\ AtPc(t, "reset")
    /\ instance' = [instance EXCEPT ![Top(t).self] = ClearedInstance(@)]
    /\ stack' = SetTop(t, [Top(t) EXCEPT !.pc = "device"])
    /\ UNCHANGED <<hook, hostHook, last, nextCall, overlapped, relocVars, loadVars>>

\* target_torch_device = torch.device(self.target_device)
MakeDevice(t) ==
    /\ AtPc(t, "device")
    /\ IF target_device(Top(t).self) \in Devices
       THEN stack' = SetTop(t, [Top(t) EXCEPT
                        !.target_torch_device = target_device(Top(t).self),
                        !.pc = "install"])
       ELSE stack' = SetTop(t, Throw(Top(t), Err("Exception", "torch.device", Top(t).id)))
    /\ UNCHANGED <<hook, hostHook, instance, last, nextCall, overlapped, relocVars, loadVars>>

\* mutant of InstallHook: the assignment is missing
HookNotInstalled(f) == hook

\* model_management.get_torch_device = lambda: target_torch_device
InstallHook(f) == Lambda(f.id, f.target_torch_device)

Install(t) ==
    /\ AtPc(t, "install")
    /\ hook' = InstallHook(Top(t))
    /\ stack' = SetTop(t, [Top(t) EXCEPT !.pc = "relocate_in"])
    /\ UNCHANGED <<hostHook, instance, last, nextCall, overlapped, relocVars, loadVars>>

\* kwargs = self._ensure_tensors_on_device(kwargs, target_torch_device)
RelocateInputs(t) ==
    /\ AtPc(t, "relocate_in")
    /\ LET r == ensure_tensors_on_device(Top(t).kwargs, Top(t).target_torch_device)
       IN  IF IsRaised(r)
           THEN stack' = SetTop(t, Throw(Top(t), Err("Exception", "relocate_in", Top(t).id)))
           ELSE stack' = SetTop(t, [Top(t) EXCEPT !.kwargs = r, !.pc = "construct"])
    /\ UNCHANGED <<hook, hostHook, instance, last, nextCall, overlapped, relocVars, loadVars>>

\* if self._preprocessor_instance is None: ... = self.preprocessor_class()
CheckInstance(t) ==
    /\ AtPc(t, "construct")
    /\ IF instance[Top(t).self] = 0
       THEN stack' = SetTop(t, [Top(t) EXCEPT !.pc = "in_init"])
       ELSE stack' = SetTop(t, [Top(t) EXCEPT !.reused = TRUE, !.pc = "invoke"])
    /\ UNCHANGED <<hook, hostHook, instance, last, nextCall, overlapped, relocVars, loadVars>>

\* self.preprocessor_class() returns and is stored
InitDone(t) ==
    /\ AtPc(t, "in_init")
    /\ instance' = [instance EXCEPT ![Top(t).self] = Top(t).id]
    /\ stack' = SetTop(t, [Top(t) EXCEPT !.pc = "invoke"])
    /\ UNCHANGED <<hook, hostHook, last, nextCall, overlapped, relocVars, loadVars>>

\* self.preprocessor_class() raises
InitRaises(t) ==
    /\ AtPc(t, "in_init")
    /\ stack' = SetTop(t, Throw(Top(t), Err("Exception", "init", Top(t).id)))
    /\ UNCHANGED <<hook, hostHook, instance, last, nextCall, overlapped, relocVars, loadVars>>

\* getattr(self._preprocessor_instance, function_name)(**kwargs) is entered
Invoke(t) ==
    /\ AtPc(t, "invoke")
    /\ IF instance[Top(t).self] = 0
       THEN stack' = SetTop(t, Throw(Top(t), Err("Exception", "getattr", Top(t).id)))
       ELSE stack' = SetTop(t, [Top(t) EXCEPT
                        !.args = Top(t).kwargs,
                        !.used = instance[Top(t).self],
                        !.invocations = @ + 1,
                        !.pc = "in_method"])
    /\ UNCHANGED <<hook, hostHook, instance, last, nextCall, overlapped, relocVars, loadVars>>

\* the preprocessor's constructor or method calls model_management.get_torch_device()
Lookup(t) ==
    /\ Running(t)
    /\ Top(t).pc \in {"in_init", "in_method"}
    /\ \E d \in CallHook(hook) :
          /\ d \notin Top(t).seen
          /\ stack' = SetTop(t, [Top(t) EXCEPT !.seen = @ \cup {d}])
    /\ UNCHANGED <<hook, hostHook, instance, last, nextCall, overlapped, relocVars, loadVars>>

\* the wrapped method returns r
MethodReturns(t, r) ==
    /\ AtPc(t, "in_method")
    /\ stack' = SetTop(t, [Top(t) EXCEPT !.result = r, !.pc = "relocate_out"])
    /\ UNCHANGED <<hook, hostHook, instance, last, nextCall, overlapped, relocVars, loadVars>>

\* the wrapped method raises an Exception, or a BaseException that is none
MethodRaises(t, cls) ==
    /\ AtPc(t, "in_method")
    /\ LET e == Err(cls, "method", Top(t).id)
       IN  stack' = SetTop(t, Throw([Top(t) EXCEPT !.methodErr = e], e))
    /\ UNCHANGED <<hook, hostHook, instance, last, nextCall, overlapped, relocVars, loadVars>>

\* result = self._ensure_tensors_on_device(result, target_torch_device)
RelocateOutputs(t) ==
    /\ AtPc(t, "relocate_out")
    /\ LET r == ensure_tensors_on_device(Top(t).result, Top(t).target_torch_device)
       IN  IF IsRaised(r)
           THEN stack' = SetTop(t, Throw(Top(t), Err("Exception", "relocate_out", Top(t).id)))
           ELSE stack' = SetTop(t, [Top(t) EXCEPT !.result = r, !.pc = "return"])
    /\ UNCHANGED <<hook, hostHook, instance, last, nextCall, overlapped, relocVars, loadVars>>

\* return result
Return(t) ==
    /\ AtPc(t, "return")
    /\ stack' = SetTop(t, [Top(t) EXCEPT !.pc = "finally"])
    /\ UNCHANGED <<hook, hostHook, instance, last, nextCall, overlapped, relocVars, loadVars>>

\* mutant of Reraise: the handler raises an error of its own
RaiseWrapped(e) == Err("Exception", "wrapper", e.call)

\* except Exception as e: logger.error(...); raise
Reraise(e) == e

Except(t) ==
    /\ AtPc(t, "except")
    /\ stack' = SetTop(t, [Top(t) EXCEPT !.exc = Reraise(@), !.pc = "finally"])
    /\ UNCHANGED <<hook, hostHook, instance, last, nextCall, overlapped, relocVars, loadVars>>

\* mutant of FinallyHook: the restore runs on the normal path only
RestoreOnSuccessOnly(f) == IF f.exc = NoError THEN f.original_get_device ELSE hook

\* mutant of FinallyHook: there is no restore
NoRestore(f) == hook

\* mutant of FinallyHook: the function of the outermost running call is restored
RestoreOutermost(f) == stack[MainThread][1].original_get_device

\* finally: model_management.get_torch_device = original_get_device
FinallyHook(f) == f.original_get_device

Finished(f, depth, after) ==
    [id |-> f.id, self |-> f.self, depth |-> depth, hookBefore |-> f.hookBefore,
     hookAfter |-> after, raised |-> f.exc,
     result |-> IF f.exc = NoError THEN f.result ELSE NoValue,
     methodErr |-> f.methodErr, invocations |-> f.invocations,
     hadInner |-> f.resumed, target |-> f.target_torch_device]

\* the finally clause, and the call's return or raise to its caller
Finally(t) ==
    /\ AtPc(t, "finally")
    /\ hook' = FinallyHook(Top(t))
    /\ last' = [last EXCEPT ![t] = Finished(Top(t), Len(stack[t]), hook')]
    /\ stack' = [stack EXCEPT ![t] =
                    LET rest == SubSeq(@, 1, Len(@) - 1)
                    IN  IF rest = <<>> THEN rest
                        ELSE [rest EXCEPT ![Len(rest)].resumed = TRUE]]
    /\ UNCHANGED <<hostHook, instance, nextCall, overlapped, relocVars, loadVars>>

Step(t) ==
    \/ Save(t) \/ EmptyCache(t) \/ ResetInstance(t) \/ MakeDevice(t) \/ Install(t)
    \/ RelocateInputs(t) \/ CheckInstance(t) \/ InitDone(t) \/ InitRaises(t)
    \/ Invoke(t)
    \/ \E r \in ResultSamples : MethodReturns(t, r)
    \/ \E cls \in {"Exception", "BaseException"} : MethodRaises(t, cls)
    \/ RelocateOutputs(t) \/ Return(t) \/ Except(t) \/ Finally(t)

\* ------------------------------------------------ the helper on one input
\* The input is built one container at a time, then the helper is applied.
IdleReloc ==
    /\ relocObj = NoValue /\ relocDevice = "cpu"
    /\ relocOut = NoValue /\ relocPhase = "idle"

WrapSeq(t) ==
    /\ relocPhase = "build"
    /\ Depth(relocObj) < MaxDepth
    /\ relocObj' = SeqOf(t, <<relocObj>>)
    /\ UNCHANGED <<relocDevice, relocOut, relocPhase, execVars, loadVars>>

WrapDict(t, k) ==
    /\ relocPhase = "build"
    /\ Depth(relocObj) < MaxDepth
    /\ relocObj' = DictOf(t, <<Item(k, relocObj)>>)
    /\ UNCHANGED <<relocDevice, relocOut, relocPhase, execVars, loadVars>>

AppendItem(leaf) ==
    /\ relocPhase = "build"
    /\ relocObj.kind = "seq"
    /\ Len(relocObj.items) < MaxLen
    /\ relocObj' = [relocObj EXCEPT !.items = Append(@, leaf)]
    /\ UNCHANGED <<relocDevice, relocOut, relocPhase, execVars, loadVars>>

PutItem(k, leaf) ==
    /\ relocPhase = "build"
    /\ relocObj.kind = "dict"
    /\ Len(relocObj.items) < MaxLen
    /\ \A i \in 1..Len(relocObj.items) : relocObj.items[i].key # k
    /\ relocObj' = [relocObj EXCEPT !.items = Append(@, Item(k, leaf))]
    /\ UNCHANGED <<relocDevice, relocOut, relocPhase, execVars, loadVars>>

Relocate ==
    /\ relocPhase = "build"
    /\ relocOut' = ensure_tensors_on_device(relocObj, relocDevice)
    /\ relocPhase' = "done"
    /\ UNCHANGED <<relocObj, relocDevice, execVars, loadVars>>

InitRelocate ==
    /\ relocObj \in Leaves
    /\ relocDevice \in {"cuda:0", "cuda:1"}
    /\ relocOut = NoValue
    /\ relocPhase = "build"

NextRelocate ==
    \/ \E t \in SeqTypes : WrapSeq(t)
    \/ \E t \in DictTypes, k \in Keys : WrapDict(t, k)
    \/ \E leaf \in Leaves : AppendItem(leaf)
    \/ \E k \in Keys, leaf \in Leaves : PutItem(k, leaf)
    \/ Relocate

\* ------------------------------------------------------------ module load
\* The five names looked up in the host registry, in source order, and the key
\* and display name each wrapper is registered under.
PluginNames ==
    <<"DepthAnythingV2Preprocessor", "DWPreprocessor", "CannyEdgePreprocessor",
      "OpenposePreprocessor", "MiDaS-DepthMapPreprocessor">>
WrapperKeys ==
    <<"DepthAnythingV2Wrapper", "DWPreprocessorWrapper", "CannyEdgePreprocessorWrapper",
      "OpenposePreprocessorWrapper", "MidasDepthMapWrapper">>
DisplayNames ==
    <<"DepthAnything V2 (GPU Wrapper)", "DWPose (GPU Wrapper)", "Canny Edge (GPU Wrapper)",
      "OpenPose (GPU Wrapper)", "Midas Depth (GPU Wrapper)">>
NumPlugins == Len(PluginNames)
EmptyMap == [k \in {} |-> "none"]
LoadAt(stage, i) == [at |-> stage, i |-> i]

IdleLoad ==
    /\ registry = {} /\ importable = FALSE /\ auxBound = FALSE
    /\ wrapperOf = [i \in 1..NumPlugins |-> "unset"]
    /\ NODE_CLASS_MAPPINGS = EmptyMap /\ NODE_DISPLAY_NAME_MAPPINGS = EmptyMap
    /\ loadPc = LoadAt("idle", 0)

\* mutant of CaughtErrors: a clause that catches the failed import only
CatchImportErrorOnly == {"ImportError"}

\* except (ImportError, KeyError)
CaughtErrors == {"ImportError", "KeyError"}

\* the first block imports the registry; the later ones only when the name
\* AUX_NODE_MAPPINGS is not bound yet
ImportNeeded(i) == i = 1 \/ ~auxBound

\* what the body of the i-th try block raises, "none" when it runs through
TryError(i) ==
    IF ImportNeeded(i) /\ ~importable THEN "ImportError"
    ELSE IF PluginNames[i] \notin registry THEN "KeyError"
    ELSE "none"

TryBlock(i) ==
    /\ loadPc = LoadAt("try", i)
    /\ auxBound' = (auxBound \/ (ImportNeeded(i) /\ importable))
    /\ IF TryError(i) = "none"
       THEN /\ wrapperOf' = [wrapperOf EXCEPT ![i] = "class"]
            /\ loadPc' = IF i < NumPlugins THEN LoadAt("try", i + 1) ELSE LoadAt("tables", 0)
       ELSE IF TryError(i) \in CaughtErrors
       THEN /\ wrapperOf' = [wrapperOf EXCEPT ![i] = "None"]
            /\ loadPc' = IF i < NumPlugins THEN LoadAt("try", i + 1) ELSE LoadAt("tables", 0)
       ELSE /\ wrapperOf' = wrapperOf
            /\ loadPc' = LoadAt("failed", i)
    /\ UNCHANGED <<registry, importable, NODE_CLASS_MAPPINGS, NODE_DISPLAY_NAME_MAPPINGS>>
    /\ UNCHANGED <<execVars, relocVars>>

\* NODE_CLASS_MAPPINGS = {} ; NODE_DISPLAY_NAME_MAPPINGS = {}
CreateTables ==
    /\ loadPc = LoadAt("tables", 0)
    /\ NODE_CLASS_MAPPINGS' = EmptyMap
    /\ NODE_DISPLAY_NAME_MAPPINGS' = EmptyMap
    /\ loadPc' = LoadAt("register", 1)
    /\ UNCHANGED <<registry, importable, auxBound, wrapperOf, execVars, relocVars>>

\* mutant of Truthy: the registration is not guarded
AlwaysTruthy(w) == TRUE

\* if <Wrapper>: a class is true, None is false
Truthy(w) == w = "class"

Register(i) ==
    /\ loadPc = LoadAt("register", i)
    /\ IF Truthy(wrapperOf[i])
       THEN /\ NODE_CLASS_MAPPINGS' =
                   (WrapperKeys[i] :> wrapperOf[i]) @@ NODE_CLASS_MAPPINGS
            /\ NODE_DISPLAY_NAME_MAPPINGS' =
                   (WrapperKeys[i] :> DisplayNames[i]) @@ NODE_DISPLAY_NAME_MAPPINGS
       ELSE UNCHANGED <<NODE_CLASS_MAPPINGS, NODE_DISPLAY_NAME_MAPPINGS>>
    /\ loadPc' = IF i < NumPlugins THEN LoadAt("register", i + 1) ELSE LoadAt("loaded", 0)
    /\ UNCHANGED <<registry, importable, auxBound, wrapperOf, execVars, relocVars>>

InitLoad ==
    /\ registry \in SUBSET {PluginNames[i] : i \in 1..NumPlugins}
    /\ importable \in BOOLEAN
    /\ auxBound = FALSE
    /\ wrapperOf = [i \in 1..NumPlugins |-> "unset"]
    /\ NODE_CLASS_MAPPINGS = EmptyMap /\ NODE_DISPLAY_NAME_MAPPINGS = EmptyMap
    /\ loadPc = LoadAt("try", 1)

NextLoad ==
    \/ \E i \in 1..NumPlugins : TryBlock(i)
    \/ CreateTables
    \/ \E i \in 1..NumPlugins : Register(i)

\* --------------------------------------------------------- specifications
\* calls of one thread, one at a time or nested, with the host patching between
Init == IdleReloc /\ IdleLoad /\ \E h \in Originals : ExecInit(h)
Next ==
    \/ \E w \in Wrappers, kw \in KwargsSamples : Call(MainThread, w, kw)
    \/ \E w \in Wrappers, kw \in KwargsSamples : NestedCall(MainThread, w, kw)
    \/ HostPatch
    \/ Lookup(MainThread)
    \/ Step(MainThread)
Spec == Init /\ [][Next]_vars

\* two threads, each calling execute once, with no lock between them
InitThreads == IdleReloc /\ IdleLoad /\ \E h \in Originals : ExecInit(h)
NextThreads ==
    \/ \E t \in Threads, w \in Wrappers, kw \in KwargsSamples : ThreadCall(t, w, kw)
    \/ \E t \in Threads : Step(t)
SpecThreads == InitThreads /\ [][NextThreads]_vars

\* the helper applied to one structure
InitRelocateSpec == IdleExec /\ IdleLoad /\ InitRelocate
SpecRelocate == InitRelocateSpec /\ [][NextRelocate]_vars

\* the module's load
InitLoadSpec == IdleExec /\ IdleReloc /\ InitLoad
SpecLoad == InitLoadSpec /\ [][NextLoad]_vars

\* ------------------------------------------------------------- properties
Frames(t) == {stack[t][i] : i \in 1..Len(stack[t])}
Idle == \A t \in Threads : ~Running(t)
Done(t) == last[t].id # 0
Available(i) == importable /\ PluginNames[i] \in registry
Loaded == loadPc = LoadAt("loaded", 0)

\* C1: when an execute call has returned or raised, at whatever step, the hook
\* is the function it was when the call was entered.
C1_HookRestored ==
    Done(MainThread) => last[MainThread].hookAfter = last[MainThread].hookBefore

\* a call entered under the host's second function raised while relocating its
\* result and has ended
C1_Witness ==
    /\ Done(MainThread)
    /\ last[MainThread].raised.site = "relocate_out"
    /\ last[MainThread].hookBefore = Original("multigpu")
    /\ hook = Original("multigpu")

\* C2: an error raised by the wrapped method is the error the caller of execute
\* gets, no result is returned, and the method was invoked once.
C2_ErrorSurfaces ==
    (Done(MainThread) /\ last[MainThread].methodErr # NoError) =>
        /\ last[MainThread].raised = last[MainThread].methodErr
        /\ last[MainThread].result = NoValue
        /\ last[MainThread].invocations = 1

C2_Witness ==
    /\ Done(MainThread)
    /\ last[MainThread].methodErr.cls = "Exception"
    /\ last[MainThread].raised.site = "method"

\* C3: in a call that is not nested in or around another, every device lookup
\* made while the preprocessor is constructed or its method runs yields the
\* target device, and the hook is the call's lambda throughout.
C3_OverrideActive ==
    \A f \in Frames(MainThread) :
        (Len(stack[MainThread]) = 1 /\ ~f.resumed) =>
            /\ f.seen \subseteq {target_device(f.self)}
            /\ f.pc \in {"in_init", "in_method"} =>
                  hook = Lambda(f.id, target_device(f.self))

C3_Witness ==
    /\ Len(stack[MainThread]) = 1
    /\ Top(MainThread).pc = "in_method"
    /\ ~Top(MainThread).resumed
    /\ Top(MainThread).seen = {"cuda:1"}
    /\ hostHook = Original("multigpu")

\* C4: with two threads and no lock, when both calls have ended the hook is the
\* host's function unless the calls overlapped, and then it may be left as the
\* lambda of one of them.
C4_OnlyARaceLeavesOverride ==
    Idle => (hook = hostHook \/ (overlapped /\ hook.kind = "lambda"))

\* both calls have ended and the hook is one call's lambda
C4_Witness ==
    /\ Idle
    /\ \A t \in Threads : Done(t)
    /\ hook.kind = "lambda"
    /\ hook # hostHook

\* C5: the helper's result has the container types, keys, order and count of
\* its input, every tensor on the device and every other leaf unchanged.
C5_StructurePreserved ==
    relocPhase = "done" => Relocated(relocObj, relocOut, relocDevice)

\* C6: a plugin that is missing (or a registry that cannot be imported) leaves
\* its wrapper out of both mappings, the load does not fail, and the plugins
\* that are there are registered wherever the missing one falls.
C6_MissingSkipped ==
    /\ loadPc.at # "failed"
    /\ \A i \in 1..NumPlugins :
          ~Available(i) =>
              /\ WrapperKeys[i] \notin DOMAIN NODE_CLASS_MAPPINGS
              /\ WrapperKeys[i] \notin DOMAIN NODE_DISPLAY_NAME_MAPPINGS
    /\ Loaded =>
          \A i \in 1..NumPlugins :
              Available(i) =>
                  /\ WrapperKeys[i] \in DOMAIN NODE_CLASS_MAPPINGS
                  /\ WrapperKeys[i] \in DOMAIN NODE_DISPLAY_NAME_MAPPINGS

\* loaded with the first and third plugin there and the second missing
C6_Witness ==
    /\ Loaded
    /\ importable
    /\ PluginNames[1] \in registry
    /\ PluginNames[2] \notin registry
    /\ PluginNames[3] \in registry
    /\ WrapperKeys[3] \in DOMAIN NODE_CLASS_MAPPINGS

\* C7: after the load the two mappings have the same keys, one for each
\* plugin that is available and no other.
C7_SameKeys ==
    Loaded =>
        /\ DOMAIN NODE_CLASS_MAPPINGS = DOMAIN NODE_DISPLAY_NAME_MAPPINGS
        /\ DOMAIN NODE_CLASS_MAPPINGS = {WrapperKeys[i] : i \in {j \in 1..NumPlugins : Available(j)}}
        /\ Cardinality(DOMAIN NODE_CLASS_MAPPINGS) =
               Cardinality({j \in 1..NumPlugins : Available(j)})

\* two plugins available, the others missing, two entries in each mapping
C7_Witness ==
    /\ Loaded
    /\ importable
    /\ Cardinality(registry) = 2
    /\ Cardinality(DOMAIN NODE_CLASS_MAPPINGS) = 2
    /\ Cardinality(DOMAIN NODE_DISPLAY_NAME_MAPPINGS) = 2

\* C8: when the wrapped method is invoked every tensor of the caller's keyword
\* arguments is, relocated, in the arguments it receives, and a result that
\* is returned has every tensor on the target device.
C8_TensorsRelocated ==
    /\ \A f \in Frames(MainThread) :
          f.invocations > 0 =>
              /\ AllTensorsOn(f.args, f.target_torch_device)
              /\ TensorCount(f.args) = TensorCount(f.kwargs0)
    /\ (Done(MainThread) /\ last[MainThread].result # NoValue) =>
          AllTensorsOn(last[MainThread].result, last[MainThread].target)

C10_NestedRestore ==
    /\ (Running(MainThread) /\ Top(MainThread).resumed) =>
          hook = Lambda(Top(MainThread).id, Top(MainThread).target_torch_device)
    /\ (Done(MainThread) /\ last[MainThread].hadInner) =>
          last[MainThread].hookAfter = last[MainThread].hookBefore

\* an inner call with another target device has raised, the outer call runs on
C10_Witness ==
    /\ Running(MainThread)
    /\ Top(MainThread).resumed
    /\ Top(MainThread).pc = "in_method"
    /\ last[MainThread].depth = 2
    /\ last[MainThread].raised.site = "method"
    /\ last[MainThread].target # Top(MainThread).target_torch_device

====
